---------------------------- MODULE Spec2Model ----------------------------
(***************************************************************************)
(* Rock-paper-scissors client / library (rps_game).                        *)
(*                                                                         *)
(* A Go string is modelled as the sequence of its bytes (0..255); a rune   *)
(* is an integer.  The library's codec (Encrypt, Decrypt, SendMessage,     *)
(* ReceiveMessage), determineOutcome, outcomeString, the server's main     *)
(* and the client's Start / promptNickname / gameLoop / promptChoice are   *)
(* translated from the Go sources.  The server's connection handler, its   *)
(* match runner and its nickname registry are not part of the sources at   *)
(* hand; they are modelled from the design document and marked so.         *)
(***************************************************************************)
EXTENDS Integers, Sequences, FiniteSets, TLC

VARIABLES
    \* --- codec harness -------------------------------------------------
    cIn,        \* payload handed to Encrypt / SendMessage
    cEnc,       \* <<>> or <<Encrypt(cIn)>>
    cDec,       \* <<>> or <<Decrypt(Encrypt(cIn))>>
    cWire,      \* bytes written to the connection and not yet read
    cClosed,    \* the writing end of the connection has been closed
    cOrigin,    \* who wrote cWire: "none", "send" (SendMessage), "raw" or
                \* "stream" (several SendMessage calls)
    cSent,      \* "stream": the payloads of the SendMessage calls, in order
    cLine,      \* the lines the ReceiveMessage calls read, in order
    cRes,       \* the results of the ReceiveMessage calls, in order
    \* --- one match (Game, Player1, Player2) ------------------------------
    mRounds,    \* Server.Rounds, the configured round count
    mRoundsLeft,\* Game.Rounds, the countdown
    mChoice1,   \* Player1.Choice
    mChoice2,   \* Player2.Choice
    mScore1,    \* Player1.Score
    mScore2,    \* Player2.Score
    mOut,       \* <<>> or <<the pair determineOutcome returned last>>
    \* --- the server's main ----------------------------------------------
    osArgs,     \* os.Args[1:]
    mainPc,     \* "start", "serving" or "exited"
    exitCode,   \* -1 while running
    mainOut,    \* what main printed: "none", "usage", "invalidRounds", "startError"
    srvBuilt,   \* NewServer has been called
    srvRounds,  \* the round count given to NewServer (0: none)
    srvPort,    \* the port given to NewServer
    \* --- the server's sessions, registry and matchmaking queue ------------
    sState,     \* per session: "none", "negotiating", "waiting", "matched", "gone"
    sNick,      \* per session: the nickname it registered (<<>>: none)
    lastReq,    \* <<>> or <<the last nickname request and its answer>>
    lastRefused,\* <<>> or <<s, n>>: the last request answered RETRY
    nicknames,  \* the registry: nicknames currently taken
    WaitingPlayers, \* Server.WaitingPlayers, the buffered channel
    taken,      \* <<>> or <<s>>: the first session the pairing loop has taken
    pairs,      \* the pairs handed to match runners, in order
    enqueued,   \* the sessions in the order they were enqueued
    \* --- the client and the server's end of its connection ---------------
    pc,         \* where the client is inside Client.Start
    entry,      \* where this run entered Client.Start
    stdin,      \* the lines the user has yet to type (then end of input)
    nickname,   \* promptNickname's nickname
    toServer,   \* bytes the client wrote, not yet read by the server
    fromServer, \* bytes the server wrote, not yet read by the client
    connClosed, \* the server's end has closed the connection
    sent,       \* the messages the client's SendMessage calls delivered
    typed,      \* the lines promptChoice has read, as typed
    reports,    \* the round reports gameLoop has parsed
    scoreSeen,  \* gameLoop has received the SCORE message
    startSeen,  \* promptNickname has received START
    inGame,     \* gameLoop has been entered
    lastRecv,   \* <<>> or <<the client's last ReceiveMessage call>>
    failure,    \* why Start returned an error ("none": it has not)
    pPhase      \* the server's end: "greet", "negotiate", "match", "over"

codecVars == <<cIn, cEnc, cDec, cWire, cClosed, cOrigin, cSent, cLine, cRes>>
matchVars == <<mRounds, mRoundsLeft, mChoice1, mChoice2, mScore1, mScore2, mOut>>
mainVars == <<osArgs, mainPc, exitCode, mainOut, srvBuilt, srvRounds, srvPort>>

serverVars == <<sState, sNick, lastReq, lastRefused, nicknames,
                WaitingPlayers, taken, pairs, enqueued>>

clientVars == <<pc, entry, stdin, nickname, toServer, fromServer, connClosed,
                sent, typed, reports, scoreSeen, startSeen, inGame, lastRecv,
                failure, pPhase>>

vars == <<codecVars, matchVars, mainVars, serverVars, clientVars>>

\* What a step of one part of the model leaves alone.
CodecOnly == UNCHANGED <<matchVars, mainVars, serverVars, clientVars>>
MatchOnly == UNCHANGED <<codecVars, mainVars, serverVars, clientVars>>
MainOnly == UNCHANGED <<codecVars, matchVars, serverVars, clientVars>>
ServerOnly == UNCHANGED <<codecVars, matchVars, mainVars, clientVars>>
ClientOnly == UNCHANGED <<codecVars, matchVars, mainVars, serverVars>>
PeerOnly == UNCHANGED <<codecVars, mainVars, serverVars>>

(***************************************************************************)
(* Bounds of the model.                                                    *)
(***************************************************************************)
MaxPayloadLen == 2
MaxRawLen == 3
MaxRounds == 3
MaxArgs == 3
MaxSessions == 4
MaxFrames == 2       \* SendMessage calls on one connection
MaxInputs == 3

(***************************************************************************)
(* Generic helpers on sequences.                                           *)
(***************************************************************************)
RECURSIVE Flatten(_)
Flatten(ss) == IF ss = <<>> THEN <<>> ELSE Head(ss) \o Flatten(Tail(ss))

SeqsUpTo(S, n) == UNION {[1..k -> S] : k \in 0..n}

Slice(s, lo, hi) == SubSeq(s, lo + 1, hi)       \* Go's s[lo:hi]

HasPrefix(s, p) == Len(s) >= Len(p) /\ SubSeq(s, 1, Len(p)) = p

(***************************************************************************)
(* UTF-8, as Go's strings.Builder.WriteRune and `range` over a string      *)
(* compute it.                                                             *)
(***************************************************************************)
RuneError == 65533
MaxRune == 1114111
SurrogateMin == 55296
SurrogateMax == 57343

ValidRune(r) == /\ r >= 0
                /\ r <= MaxRune
                /\ ~(r >= SurrogateMin /\ r <= SurrogateMax)

RuneErrorBytes == <<239, 191, 189>>

EncodeRune(r) ==
    IF r < 0 THEN RuneErrorBytes
    ELSE IF r <= 127 THEN <<r>>
    ELSE IF r <= 2047 THEN <<192 + (r \div 64), 128 + (r % 64)>>
    ELSE IF ~ValidRune(r) THEN RuneErrorBytes
    ELSE IF r <= 65535
      THEN <<224 + (r \div 4096), 128 + ((r \div 64) % 64), 128 + (r % 64)>>
      ELSE <<240 + (r \div 262144), 128 + ((r \div 4096) % 64),
             128 + ((r \div 64) % 64), 128 + (r % 64)>>

IsCont(b) == b >= 128 /\ b <= 191

\* The size a leading byte announces (0: not a leading byte).
LeadSize(b) ==
    IF b >= 194 /\ b <= 223 THEN 2
    ELSE IF b >= 224 /\ b <= 239 THEN 3
    ELSE IF b >= 240 /\ b <= 244 THEN 4
    ELSE 0

\* The range the second byte must lie in (Go's acceptRanges).
SecondLo(b) == IF b = 224 THEN 160 ELSE IF b = 240 THEN 144 ELSE 128
SecondHi(b) == IF b = 237 THEN 159 ELSE IF b = 244 THEN 143 ELSE 191

\* The rune that starts s (s non-empty) and the number of bytes it takes.
DecodeRune(s) ==
    LET b0 == s[1]
        n  == LeadSize(b0)
    IN  IF b0 < 128 THEN [rune |-> b0, size |-> 1]
        ELSE IF n = 0 \/ Len(s) < n THEN [rune |-> RuneError, size |-> 1]
        ELSE IF s[2] < SecondLo(b0) \/ s[2] > SecondHi(b0)
          THEN [rune |-> RuneError, size |-> 1]
        ELSE IF n = 2
          THEN [rune |-> (b0 - 192) * 64 + (s[2] - 128), size |-> 2]
        ELSE IF ~IsCont(s[3]) THEN [rune |-> RuneError, size |-> 1]
        ELSE IF n = 3
          THEN [rune |-> (b0 - 224) * 4096 + (s[2] - 128) * 64 + (s[3] - 128),
                size |-> 3]
        ELSE IF ~IsCont(s[4]) THEN [rune |-> RuneError, size |-> 1]
        ELSE [rune |-> (b0 - 240) * 262144 + (s[2] - 128) * 4096
                        + (s[3] - 128) * 64 + (s[4] - 128),
              size |-> 4]

\* The rune that ends s (s non-empty), as utf8.DecodeLastRuneInString.
DecodeLastRune(s) ==
    LET end == Len(s)
        lim == IF end - 4 < 0 THEN 0 ELSE end - 4
        \* 0-based candidate starts, scanned downwards from end-2 to lim
        starts == {i \in lim..(end - 2) : ~IsCont(s[i + 1])}
        start == IF starts = {} THEN lim
                 ELSE CHOOSE i \in starts : \A j \in starts : j <= i
        d == DecodeRune(Slice(s, start, end))
    IN  IF s[end] < 128 THEN [rune |-> s[end], size |-> 1]
        ELSE IF start + d.size # end THEN [rune |-> RuneError, size |-> 1]
        ELSE d

\* The runes `for _, char := range s` yields.
RECURSIVE Runes(_)
Runes(s) ==
    IF s = <<>> THEN <<>>
    ELSE LET d == DecodeRune(s)
         IN  <<d.rune>> \o Runes(Slice(s, d.size, Len(s)))

\* s is well-formed UTF-8: decoding and re-encoding gives s back.
ValidUTF8(s) == Flatten([i \in 1..Len(Runes(s)) |-> EncodeRune(Runes(s)[i])]) = s

(***************************************************************************)
(* strings.TrimSpace, strings.ToLower (ASCII letters), strings.Split.      *)
(***************************************************************************)
IsSpace(r) ==
    \/ r \in {9, 10, 11, 12, 13, 32, 133, 160, 5760, 8232, 8233, 8239, 8287, 12288}
    \/ (r >= 8192 /\ r <= 8202)

\* In TrimLeft and TrimRight s is bound to the value of the argument, which
\* is thereby evaluated once.
RECURSIVE TrimLeft(_)
TrimLeft(str) ==
    CHOOSE t \in {IF s = <<>> THEN s
                  ELSE LET d == DecodeRune(s)
                       IN  IF IsSpace(d.rune)
                           THEN TrimLeft(Slice(s, d.size, Len(s))) ELSE s :
                  s \in {str}} : TRUE

RECURSIVE TrimRight(_)
TrimRight(str) ==
    CHOOSE t \in {IF s = <<>> THEN s
                  ELSE LET d == DecodeLastRune(s)
                       IN  IF IsSpace(d.rune)
                           THEN TrimRight(Slice(s, 0, Len(s) - d.size)) ELSE s :
                  s \in {str}} : TRUE

TrimSpace(s) == TrimRight(TrimLeft(s))

(***************************************************************************)
(* Encrypt / Decrypt: every rune shifted by +3 / -3.                       *)
(***************************************************************************)
ShiftBy == 3

\* A shift that leaves the runes as they are.
EncryptNoShift(msg) ==
    Flatten([i \in 1..Len(Runes(msg)) |-> EncodeRune(Runes(msg)[i])])

Encrypt(msg) ==
    Flatten([i \in 1..Len(Runes(msg)) |-> EncodeRune(Runes(msg)[i] + ShiftBy)])

Decrypt(msg) ==
    Flatten([i \in 1..Len(Runes(msg)) |-> EncodeRune(Runes(msg)[i] - ShiftBy)])

(***************************************************************************)
(* SendMessage / ReceiveMessage.                                           *)
(***************************************************************************)
HeaderMark == <<226, 154, 160>>     \* "⚠"
FooterMark == <<226, 152, 160>>     \* "☠"
NewLine == 10

\* The bytes SendMessage writes for msg.
Frame(msg) == HeaderMark \o Encrypt(msg) \o FooterMark \o <<NewLine>>

\* Index of the first '\n' of the stream, 0 when there is none.
NewlineAt(stream) ==
    IF \E i \in 1..Len(stream) : stream[i] = NewLine
    THEN CHOOSE i \in 1..Len(stream) :
            /\ stream[i] = NewLine
            /\ \A j \in 1..(i - 1) : stream[j] # NewLine
    ELSE 0

\* What ReceiveMessage makes of the line ReadString returned.
ParseLine(line) ==
    LET msg == TrimSpace(line)
        n   == Len(msg)
        header  == Slice(msg, 0, 1)
        footer  == Slice(msg, n - 1, n)
        content == Slice(msg, 1, n - 1)
    IN  IF n < 2 THEN [err |-> "tooShort", msg |-> <<>>]
        ELSE IF header # HeaderMark THEN [err |-> "header", msg |-> <<>>]
        ELSE IF footer # FooterMark THEN [err |-> "footer", msg |-> <<>>]
        ELSE [err |-> "nil", msg |-> Decrypt(content)]

ReadFailed == [err |-> "read", msg |-> <<>>]


\* ReceiveMessage that keeps waiting for a line on a closed connection.
ReceiveMessageWaitsOnClosed(stream, closed) ==
    LET idx == NewlineAt(stream)
    IN  IF idx > 0
        THEN {[res  |-> parsed,
               line |-> <<SubSeq(stream, 1, idx)>>,
               rest |-> SubSeq(stream, k + 1, Len(stream))] :
                    parsed \in {ParseLine(SubSeq(stream, 1, idx))},
                    k \in idx..Len(stream)}
        ELSE {}

\* ReceiveMessage on a connection whose unread bytes are `stream`: the set of
\* possible outcomes [res, rest].  The call blocks (no outcome) while no full
\* line has arrived and the connection is open.  Each call wraps the
\* connection in a new bufio.Reader, whose buffer takes whatever has arrived
\* beyond the line as well and is dropped on return: k bytes are consumed,
\* at least the line.
ReceiveMessage(stream, closed) ==
    LET idx == NewlineAt(stream)
    IN  IF idx > 0
        THEN {[res  |-> parsed,
               line |-> <<SubSeq(stream, 1, idx)>>,
               rest |-> SubSeq(stream, k + 1, Len(stream))] :
                    parsed \in {ParseLine(SubSeq(stream, 1, idx))},
                    k \in idx..Len(stream)}
        ELSE IF closed
        THEN {[res |-> ReadFailed, line |-> <<>>, rest |-> <<>>]}
        ELSE {}

(***************************************************************************)
(* Codec harness: one payload through Encrypt, Decrypt and SendMessage,    *)
(* or arbitrary bytes written by the peer, then one ReceiveMessage.        *)
(***************************************************************************)
TestRunes == {82, 125, 2045, 7, 29, 55293, 65533, 1114109, 9757}
PayloadAtoms == {EncodeRune(r) : r \in TestRunes} \cup {<<255>>}
Payloads == {Flatten(ss) : ss \in SeqsUpTo(PayloadAtoms, MaxPayloadLen)}

RawAtoms == {HeaderMark, FooterMark, <<97>>, <<32>>, <<226>>}
RawLines == {Flatten(ss) : ss \in SeqsUpTo(RawAtoms, MaxRawLen)}

\* Either a payload to encrypt and send, or bytes of the peer's own choosing
\* already written to the connection, with or without the newline.
CodecInit ==
    /\ cEnc = <<>>
    /\ cDec = <<>>
    /\ cClosed = FALSE
    /\ cSent = <<>>
    /\ cLine = <<>>
    /\ cRes = <<>>
    /\ \/ /\ cIn \in Payloads
          /\ cWire = <<>>
          /\ cOrigin = "none"
       \/ /\ cIn = <<>>
          /\ \E l \in RawLines, nl \in BOOLEAN :
                cWire = l \o (IF nl THEN <<NewLine>> ELSE <<>>)
          /\ cOrigin = "raw"

DoEncrypt ==
    /\ cOrigin # "raw"
    /\ cEnc = <<>>
    /\ cEnc' = <<Encrypt(cIn)>>
    /\ UNCHANGED <<cIn, cDec, cWire, cClosed, cOrigin, cSent, cLine, cRes>>
    /\ CodecOnly

DoDecrypt ==
    /\ cEnc # <<>>
    /\ cDec = <<>>
    /\ cDec' = <<Decrypt(cEnc[1])>>
    /\ UNCHANGED <<cIn, cEnc, cWire, cClosed, cOrigin, cSent, cLine, cRes>>
    /\ CodecOnly

\* SendMessage(conn, cIn): the frame is written, or the write fails.
DoSendMessage ==
    /\ cOrigin = "none"
    /\ IF cClosed
       THEN /\ cOrigin' = "sendErr"
            /\ UNCHANGED cWire
       ELSE /\ cOrigin' = "send"
            /\ cWire' = cWire \o Frame(cIn)
    /\ UNCHANGED <<cIn, cEnc, cDec, cClosed, cSent, cLine, cRes>>
    /\ CodecOnly

PeerCloses ==
    /\ ~cClosed
    /\ cClosed' = TRUE
    /\ UNCHANGED <<cIn, cEnc, cDec, cWire, cOrigin, cSent, cLine, cRes>>
    /\ CodecOnly

\* One more ReceiveMessage call on the connection.
DoReceiveMessage ==
    /\ Len(cRes) < (IF cOrigin = "stream" THEN MaxFrames ELSE 1)
    /\ \E o \in ReceiveMessage(cWire, cClosed) :
          /\ cRes' = Append(cRes, o.res)
          /\ cLine' = cLine \o o.line
          /\ cWire' = o.rest
    /\ UNCHANGED <<cIn, cEnc, cDec, cClosed, cOrigin, cSent>>
    /\ CodecOnly

CodecNext ==
    \/ DoEncrypt
    \/ DoDecrypt
    \/ DoSendMessage
    \/ PeerCloses
    \/ DoReceiveMessage

(***************************************************************************)
(* Stream harness: up to MaxFrames SendMessage calls on one connection and *)
(* as many ReceiveMessage calls on its other end, in any interleaving.     *)
(***************************************************************************)
StreamPayloads == {<<82>>, <<111, 107>>}     \* "R", "ok"

StreamInit ==
    /\ cIn = <<>>
    /\ cEnc = <<>>
    /\ cDec = <<>>
    /\ cWire = <<>>
    /\ cClosed = FALSE
    /\ cOrigin = "stream"
    /\ cSent = <<>>
    /\ cLine = <<>>
    /\ cRes = <<>>

\* SendMessage(conn, p) by the writing end.
StreamSend ==
    /\ cOrigin = "stream"
    /\ ~cClosed
    /\ Len(cSent) < MaxFrames
    /\ \E p \in StreamPayloads :
          /\ cWire' = cWire \o Frame(p)
          /\ cSent' = Append(cSent, p)
    /\ UNCHANGED <<cIn, cEnc, cDec, cClosed, cOrigin, cLine, cRes>>
    /\ CodecOnly

StreamNext ==
    \/ StreamSend
    \/ PeerCloses
    \/ DoReceiveMessage

(***************************************************************************)
(* Claims on the codec.                                                    *)
(***************************************************************************)
\* Every character of p is a character (p is well-formed UTF-8) and stays a
\* valid code point when shifted.
ShiftSafe(p) ==
    /\ ValidUTF8(p)
    /\ \A i \in 1..Len(Runes(p)) : ValidRune(Runes(p)[i] + ShiftBy)

\* ... and no shifted character is the line terminator.
FrameSafe(p) ==
    /\ ShiftSafe(p)
    /\ \A i \in 1..Len(Runes(p)) : Runes(p)[i] + ShiftBy # NewLine

\* C2: the frame SendMessage writes for a frame-safe payload is accepted by
\* ReceiveMessage, which returns the payload without error.
C2_FrameRoundTrip ==
    (cOrigin = "send" /\ cRes # <<>> /\ FrameSafe(cIn))
        => (cRes[1].err = "nil" /\ cRes[1].msg = cIn)

\* C3: for a shift-safe string p, Encrypt shifts every character by +3
\* keeping length and order, and Decrypt(Encrypt(p)) = p.
C3_ShiftRoundTrip ==
    /\ (cEnc # <<>> /\ ShiftSafe(cIn)) =>
          /\ Len(Runes(cEnc[1])) = Len(Runes(cIn))
          /\ \A i \in 1..Len(Runes(cIn)) :
                Runes(cEnc[1])[i] = Runes(cIn)[i] + 3
    /\ (cDec # <<>> /\ ShiftSafe(cIn)) => cDec[1] = cIn

\* A two-character shift-safe string whose encoding grew under the shift has
\* gone through Encrypt and Decrypt.
C3_Witness ==
    /\ cDec # <<>>
    /\ ShiftSafe(cIn)
    /\ Len(Runes(cIn)) = 2
    /\ Len(cEnc[1]) > Len(cIn)
    /\ cDec[1] = cIn

\* C4: a line whose first character is not the start marker fails with the
\* bad-header error, one that starts with the start marker but does not end
\* with the end marker fails with the bad-footer error, one of fewer than two
\* characters fails as too short, and none of these returns a payload.
C4_MalformedFrames ==
    (cRes # <<>> /\ cLine # <<>>) =>
        LET msg == TrimSpace(cLine[1])
            chars == Runes(msg)
            n == Len(chars)
        IN  /\ Len(msg) < 2 => cRes[1].err = "tooShort"
            /\ (Len(msg) >= 2 /\ chars[1] # 9888) => cRes[1].err = "header"
            /\ (Len(msg) >= 2 /\ chars[1] = 9888 /\ chars[n] # 9760)
                  => cRes[1].err = "footer"
            /\ cRes[1].err # "nil" => cRes[1].msg = <<>>



\* C15: no frame is lost between receive calls: the j-th ReceiveMessage call
\* on a connection reads the j-th frame written to it, whether or not later
\* frames had been written by then, and does not fail to read.
C15_NoFrameLost ==
    cOrigin = "stream" =>
        \A j \in 1..Len(cRes) :
            j <= Len(cSent) =>
                /\ \A i \in 1..j : cRes[i].err # "read"
                /\ Len(cLine) >= j
                /\ cLine[j] = Frame(cSent[j])

(***************************************************************************)
(* Protocol words, as byte strings.                                        *)
(***************************************************************************)
S_rock == <<114, 111, 99, 107>>
S_paper == <<112, 97, 112, 101, 114>>
S_scissors == <<115, 99, 105, 115, 115, 111, 114, 115>>
S_lizard == <<108, 105, 122, 97, 114, 100>>
S_READY == <<82, 69, 65, 68, 89>>
S_RETRY == <<82, 69, 84, 82, 89>>
S_START == <<83, 84, 65, 82, 84>>
S_SCORE == <<83, 67, 79, 82, 69>>
S_win == <<119, 105, 110>>
S_lose == <<108, 111, 115, 101>>
S_draw == <<100, 114, 97, 119>>
S_ENDED == <<69, 78, 68, 69, 68>>

Choices == {S_rock, S_paper, S_scissors}

(***************************************************************************)
(* determineOutcome, outcomeString.                                        *)
(***************************************************************************)
\* determineOutcome with the paper-against-rock branch inverted.
determineOutcomePaperLoses(p1Choice, p2Choice) ==
    IF p1Choice = p2Choice THEN <<0, 0>>
    ELSE IF p1Choice = S_rock
      THEN (IF p2Choice = S_scissors THEN <<1, -1>> ELSE <<-1, 1>>)
    ELSE IF p1Choice = S_paper
      THEN (IF p2Choice = S_rock THEN <<-1, 1>> ELSE <<1, -1>>)
    ELSE IF p1Choice = S_scissors
      THEN (IF p2Choice = S_paper THEN <<1, -1>> ELSE <<-1, 1>>)
    ELSE <<0, 0>>

\* determineOutcome in which the loser of a round is not charged.
determineOutcomeWinnerOnly(p1Choice, p2Choice) ==
    IF p1Choice = p2Choice THEN <<0, 0>>
    ELSE IF p1Choice = S_rock
      THEN (IF p2Choice = S_scissors THEN <<1, 0>> ELSE <<0, 1>>)
    ELSE IF p1Choice = S_paper
      THEN (IF p2Choice = S_rock THEN <<1, 0>> ELSE <<0, 1>>)
    ELSE IF p1Choice = S_scissors
      THEN (IF p2Choice = S_paper THEN <<1, 0>> ELSE <<0, 1>>)
    ELSE <<0, 0>>

\* determineOutcome that scores nothing unless both choices are of the
\* enumeration.
determineOutcomeValidOnly(p1Choice, p2Choice) ==
    IF p1Choice = p2Choice THEN <<0, 0>>
    ELSE IF p2Choice \notin Choices THEN <<0, 0>>
    ELSE IF p1Choice = S_rock
      THEN (IF p2Choice = S_scissors THEN <<1, -1>> ELSE <<-1, 1>>)
    ELSE IF p1Choice = S_paper
      THEN (IF p2Choice = S_rock THEN <<1, -1>> ELSE <<-1, 1>>)
    ELSE IF p1Choice = S_scissors
      THEN (IF p2Choice = S_paper THEN <<1, -1>> ELSE <<-1, 1>>)
    ELSE <<0, 0>>

determineOutcome(p1Choice, p2Choice) ==
    IF p1Choice = p2Choice THEN <<0, 0>>
    ELSE IF p1Choice = S_rock
      THEN (IF p2Choice = S_scissors THEN <<1, -1>> ELSE <<-1, 1>>)
    ELSE IF p1Choice = S_paper
      THEN (IF p2Choice = S_rock THEN <<1, -1>> ELSE <<-1, 1>>)
    ELSE IF p1Choice = S_scissors
      THEN (IF p2Choice = S_paper THEN <<1, -1>> ELSE <<-1, 1>>)
    ELSE <<0, 0>>

\* outcomeString that words the delta from the opponent's side.
outcomeStringOfOpponent(score) ==
    IF score = 1 THEN S_lose
    ELSE IF score = -1 THEN S_win
    ELSE S_draw

outcomeString(score) ==
    IF score = 1 THEN S_win
    ELSE IF score = -1 THEN S_lose
    ELSE S_draw

(***************************************************************************)
(* One match: the round engine scores the two choices of a round and       *)
(* counts the rounds down.                                                 *)
(***************************************************************************)
ChoiceInputs == Choices \cup {S_lizard, <<>>}

MatchInit ==
    /\ mRounds \in 1..MaxRounds
    /\ mRoundsLeft = mRounds
    /\ mChoice1 = <<>>
    /\ mChoice2 = <<>>
    /\ mScore1 = 0
    /\ mScore2 = 0
    /\ mOut = <<>>

\* The scoring of one round in which the players chose a and b.
ScoreRound(a, b) ==
    LET o == determineOutcome(a, b)
    IN  /\ mRoundsLeft > 0
        /\ mChoice1' = a
        /\ mChoice2' = b
        /\ mOut' = <<o>>
        /\ mScore1' = mScore1 + o[1]
        /\ mScore2' = mScore2 + o[2]
        /\ mRoundsLeft' = mRoundsLeft - 1
        /\ UNCHANGED mRounds

PlayRound ==
    /\ \E a \in ChoiceInputs, b \in ChoiceInputs : ScoreRound(a, b)
    /\ MatchOnly

MatchNext == PlayRound

\* a beats b
Beats(a, b) ==
    <<a, b>> \in {<<S_rock, S_scissors>>, <<S_scissors, S_paper>>,
                  <<S_paper, S_rock>>}

\* C1: on choices of the enumeration determineOutcome follows the cyclic
\* rule, (+1,-1) exactly when a beats b, (-1,+1) exactly when b beats a,
\* (0,0) exactly when a = b, and swapping the choices swaps the pair.
C1_CyclicRule ==
    (mOut # <<>> /\ mChoice1 \in Choices /\ mChoice2 \in Choices) =>
        /\ mOut[1] \in {<<1, -1>>, <<-1, 1>>, <<0, 0>>}
        /\ mOut[1] = <<1, -1>> <=> Beats(mChoice1, mChoice2)
        /\ mOut[1] = <<-1, 1>> <=> Beats(mChoice2, mChoice1)
        /\ mOut[1] = <<0, 0>> <=> mChoice1 = mChoice2
        /\ determineOutcome(mChoice2, mChoice1) = <<mOut[1][2], mOut[1][1]>>

\* Paper has just beaten rock.
C1_Witness ==
    /\ mOut = <<(<<1, -1>>)>>
    /\ mChoice1 = S_paper
    /\ mChoice2 = S_rock

\* The words the two sides are told about the round just scored.
Told == <<outcomeString(mOut[1][1]), outcomeString(mOut[1][2])>>

\* C13: for choices of the enumeration the two sides are told
\* ("win","lose") when a beats b, ("lose","win") when b beats a and
\* ("draw","draw") when a = b; one side is told "win" exactly when the
\* other is told "lose".
C13_OwnPerspective ==
    (mOut # <<>> /\ mChoice1 \in Choices /\ mChoice2 \in Choices) =>
        /\ Beats(mChoice1, mChoice2) => Told = <<S_win, S_lose>>
        /\ Beats(mChoice2, mChoice1) => Told = <<S_lose, S_win>>
        /\ mChoice1 = mChoice2 => Told = <<S_draw, S_draw>>
        /\ Told[1] = S_win <=> Told[2] = S_lose
        /\ Told[2] = S_win <=> Told[1] = S_lose

\* Scissors has just lost to rock: the first side is told "lose", the
\* second "win".
C13_Witness ==
    /\ mOut # <<>>
    /\ mChoice1 = S_scissors
    /\ mChoice2 = S_rock
    /\ Told = <<S_lose, S_win>>

RoundsPlayed == mRounds - mRoundsLeft

Abs(n) == IF n < 0 THEN 0 - n ELSE n

\* C16: whatever the two strings, each delta of a round is in {-1, 0, +1}
\* and the two sum to 0; after every round the two scores sum to 0 and
\* neither exceeds, in absolute value, the number of rounds played.
C16_ZeroSum ==
    /\ mOut # <<>> =>
          /\ mOut[1][1] \in {-1, 0, 1}
          /\ mOut[1][2] \in {-1, 0, 1}
          /\ mOut[1][1] + mOut[1][2] = 0
    /\ mScore1 + mScore2 = 0
    /\ Abs(mScore1) <= RoundsPlayed
    /\ Abs(mScore2) <= RoundsPlayed

\* Two rounds played, the last against a string outside the enumeration,
\* and the first player has lost both.
C16_Witness ==
    /\ RoundsPlayed >= 2
    /\ mChoice2 \notin Choices
    /\ mScore1 = 0 - RoundsPlayed
    /\ mScore2 = RoundsPlayed

\* C17: equal strings score (0,0); a first choice outside the enumeration
\* that differs from the second scores (0,0) whatever the second is; a
\* first choice of the enumeration against a second outside it scores
\* (-1,+1).
C17_OutsideEnumeration ==
    mOut # <<>> =>
        /\ mChoice1 = mChoice2 => mOut[1] = <<0, 0>>
        /\ (mChoice1 \notin Choices /\ mChoice1 # mChoice2) =>
              mOut[1] = <<0, 0>>
        /\ (mChoice1 \in Choices /\ mChoice2 \notin Choices) =>
              mOut[1] = <<-1, 1>>

\* Rock has just been played against "lizard" and lost.
C17_Witness ==
    /\ mOut = <<(<<-1, 1>>)>>
    /\ mChoice1 = S_rock
    /\ mChoice2 = S_lizard

(***************************************************************************)
(* The server's main.                                                      *)
(***************************************************************************)
IsDigit(b) == b >= 48 /\ b <= 57

RECURSIVE DigitsValue(_, _)
DigitsValue(s, acc) ==
    IF s = <<>> THEN acc
    ELSE DigitsValue(Tail(s), acc * 10 + (Head(s) - 48))

\* strconv.Atoi on a short string: an optional sign, then digits only.
Atoi(s) ==
    LET signed == s # <<>> /\ s[1] \in {43, 45}
        body == IF signed THEN Tail(s) ELSE s
    IN  IF body = <<>> \/ \E i \in 1..Len(body) : ~IsDigit(body[i])
        THEN [ok |-> FALSE, val |-> 0]
        ELSE [ok |-> TRUE,
              val |-> IF signed /\ s[1] = 45 THEN 0 - DigitsValue(body, 0)
                      ELSE DigitsValue(body, 0)]

ArgAtoms == {<<51>>, <<48>>, <<45, 49>>, <<43, 50>>, <<120>>, <<>>,
             <<49, 50>>, <<45>>, <<50, 97>>}

MainInit ==
    /\ osArgs \in SeqsUpTo(ArgAtoms, MaxArgs)
    /\ mainPc = "start"
    /\ exitCode = -1
    /\ mainOut = "none"
    /\ srvBuilt = FALSE
    /\ srvRounds = 0
    /\ srvPort = <<>>

MainExit(code, out) ==
    /\ mainPc' = "exited"
    /\ exitCode' = code
    /\ mainOut' = out
    /\ UNCHANGED <<osArgs, srvBuilt, srvRounds, srvPort>>

\* main accepting a round count of zero.
MainAcceptsZero ==
    /\ mainPc = "start"
    /\ IF Len(osArgs) + 1 < 3
       THEN MainExit(1, "usage")
       ELSE LET r == Atoi(osArgs[1])
            IN  IF ~r.ok \/ r.val < 0
                THEN MainExit(1, "invalidRounds")
                ELSE /\ srvBuilt' = TRUE
                     /\ srvRounds' = r.val
                     /\ srvPort' = osArgs[2]
                     /\ mainPc' = "serving"
                     /\ UNCHANGED <<osArgs, exitCode, mainOut>>
    /\ MainOnly

\* main, up to the call of server.Start.
Main ==
    /\ mainPc = "start"
    /\ IF Len(osArgs) + 1 < 3
       THEN MainExit(1, "usage")
       ELSE LET r == Atoi(osArgs[1])
            IN  IF ~r.ok \/ r.val <= 0
                THEN MainExit(1, "invalidRounds")
                ELSE /\ srvBuilt' = TRUE
                     /\ srvRounds' = r.val
                     /\ srvPort' = osArgs[2]
                     /\ mainPc' = "serving"
                     /\ UNCHANGED <<osArgs, exitCode, mainOut>>
    /\ MainOnly

\* server.Start returns: with an error main exits through log.Fatalf, without
\* one it returns.
ServerStartReturns ==
    /\ mainPc = "serving"
    /\ \E failed \in BOOLEAN :
          IF failed THEN MainExit(1, "startError") ELSE MainExit(0, "none")
    /\ MainOnly

MainNext == Main \/ ServerStartReturns

\* The round-count argument is written as a decimal integer / a positive one.
IsInteger(s) ==
    LET body == IF s # <<>> /\ s[1] \in {43, 45} THEN Tail(s) ELSE s
    IN  body # <<>> /\ \A i \in 1..Len(body) : IsDigit(body[i])
IsPositiveInteger(s) ==
    /\ IsInteger(s)
    /\ s[1] # 45
    /\ \E i \in 1..Len(s) : s[i] \in 49..57

BadArgs ==
    \/ Len(osArgs) < 2
    \/ ~IsPositiveInteger(osArgs[1])

\* C8 as stated: with bad arguments the server exits non-zero with a usage
\* message and never constructs a server; a started server has a positive
\* round count.
C8_UsageOnBadArgs ==
    /\ (mainPc # "start" /\ BadArgs) =>
          /\ mainPc = "exited"
          /\ exitCode # 0
          /\ exitCode # -1
          /\ mainOut = "usage"
          /\ ~srvBuilt
    /\ srvBuilt => srvRounds > 0

\* C8 amended: the usage message is printed only when arguments are missing;
\* a round count that is not a positive integer exits non-zero with the
\* "Invalid number_of_rounds" message.
C8_StartupValidation ==
    /\ (mainPc # "start" /\ BadArgs) =>
          /\ mainPc = "exited"
          /\ exitCode # 0
          /\ exitCode # -1
          /\ mainOut = (IF Len(osArgs) < 2 THEN "usage" ELSE "invalidRounds")
          /\ ~srvBuilt
    /\ srvBuilt => (srvRounds > 0 /\ ~BadArgs)

\* Two arguments were given, the round count "0": main has exited.
C8_Witness ==
    /\ mainPc = "exited"
    /\ Len(osArgs) = 2
    /\ osArgs[1] = <<48>>
    /\ exitCode = 1
    /\ ~srvBuilt

(***************************************************************************)
(* The server's waiting-players channel, and around it the connection      *)
(* handler, the nickname registry and the pairing loop as the design       *)
(* document describes them.                                                *)
(***************************************************************************)
QueueCap == 100

\* A channel that hands out the newest element first.
ChanSendFront(ch, v) == <<v>> \o ch

\* ch <- v and <-ch on a buffered channel: first in, first out.
ChanSend(ch, v) == Append(ch, v)
ChanRecv(ch) == [val |-> Head(ch), rest |-> Tail(ch)]
ChanFull(ch) == Len(ch) >= QueueCap

Sessions == 1..MaxSessions
Nicks == {<<97>>, <<98>>}

Live(s) == sState[s] \in {"waiting", "matched"}

\* A registry that reports every nickname as free.
NicknameTakenNever(n) == FALSE

NicknameTaken(n) == n \in nicknames

ServerInit ==
    /\ sState = [s \in Sessions |-> "none"]
    /\ sNick = [s \in Sessions |-> <<>>]
    /\ lastReq = <<>>
    /\ lastRefused = <<>>
    /\ nicknames = {}
    /\ WaitingPlayers = <<>>
    /\ taken = <<>>
    /\ pairs = <<>>
    /\ enqueued = <<>>

\* The accept loop takes the next connection and greets it with READY.
Accept ==
    /\ \E s \in Sessions :
          /\ sState[s] = "none"
          /\ \A t \in Sessions : t < s => sState[t] # "none"
          /\ sState' = [sState EXCEPT ![s] = "negotiating"]
    /\ UNCHANGED <<sNick, lastReq, lastRefused, nicknames,
                   WaitingPlayers, taken, pairs, enqueued>>
    /\ ServerOnly

\* Session s asks for nickname n: RETRY when it is taken, else START and the
\* session joins the queue.
RegisterNickname ==
    /\ \E s \in Sessions, n \in Nicks :
           LET held == \E t \in Sessions : Live(t) /\ sNick[t] = n
           IN  IF NicknameTaken(n)
               THEN /\ sState[s] = "negotiating"
                    /\ lastReq' = <<[s |-> s, n |-> n, reply |-> S_RETRY,
                                     held |-> held]>>
                    /\ lastRefused' = <<s, n>>
                    /\ UNCHANGED <<sState, sNick, nicknames, WaitingPlayers,
                                   enqueued, taken, pairs>>
               ELSE /\ sState[s] = "negotiating"
                    /\ ~ChanFull(WaitingPlayers)
                    /\ lastReq' = <<[s |-> s, n |-> n, reply |-> S_START,
                                     held |-> held]>>
                    /\ nicknames' = nicknames \cup {n}
                    /\ sNick' = [sNick EXCEPT ![s] = n]
                    /\ sState' = [sState EXCEPT ![s] = "waiting"]
                    /\ WaitingPlayers' = ChanSend(WaitingPlayers, s)
                    /\ enqueued' = Append(enqueued, s)
                    /\ UNCHANGED <<lastRefused, taken, pairs>>
    /\ ServerOnly

\* The pairing loop receives the first session of a pair ...
TakeFirst ==
    /\ taken = <<>>
    /\ WaitingPlayers # <<>>
    /\ taken' = <<ChanRecv(WaitingPlayers).val>>
    /\ WaitingPlayers' = ChanRecv(WaitingPlayers).rest
    /\ UNCHANGED <<sState, sNick, lastReq, lastRefused,
                   nicknames, pairs, enqueued>>
    /\ ServerOnly

\* ... then the second, and hands the pair to a match runner.
TakeSecond ==
    /\ taken # <<>>
    /\ WaitingPlayers # <<>>
    /\ LET p1 == taken[1]
           p2 == ChanRecv(WaitingPlayers).val
       IN  /\ pairs' = Append(pairs, <<p1, p2>>)
           /\ sState' = [s \in Sessions |->
                            IF s \in {p1, p2} /\ sState[s] = "waiting"
                            THEN "matched" ELSE sState[s]]
    /\ WaitingPlayers' = ChanRecv(WaitingPlayers).rest
    /\ taken' = <<>>
    /\ UNCHANGED <<sNick, lastReq, lastRefused, nicknames,
                   enqueued>>
    /\ ServerOnly

\* A match ends, by its last round or by a forfeit: both sessions are
\* released and their nicknames become free.
MatchEnds ==
    /\ \E k \in 1..Len(pairs) :
           LET members == {pairs[k][1], pairs[k][2]}
               leaving == {s \in members : sState[s] = "matched"}
           IN  /\ leaving # {}
               /\ sState' = [s \in Sessions |->
                                IF s \in leaving THEN "gone" ELSE sState[s]]
               /\ nicknames' = nicknames \ {sNick[s] : s \in leaving}
               /\ UNCHANGED <<sNick, lastReq, lastRefused,
                              WaitingPlayers, taken, pairs, enqueued>>
    /\ ServerOnly

\* A session that waits in the queue loses its connection: its nickname
\* becomes free, its place in the channel stays.
Disconnect ==
    /\ \E s \in Sessions :
           /\ sState[s] = "waiting"
           /\ sState' = [sState EXCEPT ![s] = "gone"]
           /\ nicknames' = nicknames \ {sNick[s]}
           /\ UNCHANGED <<sNick, lastReq, lastRefused,
                          WaitingPlayers, taken, pairs, enqueued>>
    /\ ServerOnly

ServerNext ==
    \/ Accept
    \/ RegisterNickname
    \/ TakeFirst
    \/ TakeSecond
    \/ MatchEnds
    \/ Disconnect

\* C9: the k-th pair handed out consists of the (2k-1)-th and the 2k-th
\* session enqueued, and no session is in two pairs.
C9_MatchmakingFIFO ==
    /\ 2 * Len(pairs) + Len(taken) + Len(WaitingPlayers) = Len(enqueued)
    /\ \A k \in 1..Len(pairs) :
          pairs[k] = <<enqueued[2 * k - 1], enqueued[2 * k]>>
    /\ taken # <<>> => taken[1] = enqueued[2 * Len(pairs) + 1]
    /\ \A k \in 1..Len(pairs) :
          /\ pairs[k][1] # pairs[k][2]
          /\ \A j \in 1..Len(pairs) :
                j # k => {pairs[j][1], pairs[j][2]} \cap {pairs[k][1], pairs[k][2]} = {}

\* Four sessions were enqueued, not in the order they connected, and two
\* pairs have been handed out.
C9_Witness ==
    /\ Len(pairs) = 2
    /\ Len(enqueued) = 4
    /\ enqueued[1] # 1
    /\ pairs[2] = <<enqueued[3], enqueued[4]>>

\* C10: no two sessions waiting or in a match hold the same nickname; a
\* request for a nickname is answered RETRY exactly when a waiting or matched
\* session holds it, START otherwise, so a nickname is free again once its
\* holder has disconnected or finished.
C10_NicknameUnique ==
    /\ \A s \in Sessions, t \in Sessions :
          (s # t /\ Live(s) /\ Live(t)) => sNick[s] # sNick[t]
    /\ lastReq # <<>> =>
          /\ lastReq[1].reply = S_RETRY <=> lastReq[1].held
          /\ lastReq[1].reply = S_START <=> ~lastReq[1].held

\* A session was refused a nickname another one held, and holds that same
\* nickname now that the former holder is gone.
C10_Witness ==
    \E s \in Sessions, t \in Sessions :
        /\ sState[s] = "gone"
        /\ sNick[s] # <<>>
        /\ Live(t)
        /\ sNick[t] = sNick[s]
        /\ lastRefused = <<t, sNick[t]>>
        /\ lastReq = <<[s |-> t, n |-> sNick[t], reply |-> S_START,
                        held |-> FALSE]>>

(***************************************************************************)
(* The client: Client.Start, promptNickname, gameLoop, promptChoice.       *)
(***************************************************************************)
\* strings.ToLower on an ASCII string.
ToLower(str) ==
    [i \in 1..Len(str) |->
        IF str[i] >= 65 /\ str[i] <= 90 THEN str[i] + 32 ELSE str[i]]

\* strings.Split(str, " ").
RECURSIVE Split(_)
Split(str) ==
    IF \E i \in 1..Len(str) : str[i] = 32
    THEN LET i == CHOOSE i \in 1..Len(str) :
                     str[i] = 32 /\ \A j \in 1..(i - 1) : str[j] # 32
         IN  <<SubSeq(str, 1, i - 1)>> \o Split(SubSeq(str, i + 1, Len(str)))
    ELSE <<str>>

\* strconv.Itoa.
RECURSIVE Digits(_)
Digits(n) == IF n < 10 THEN <<48 + n>> ELSE Digits(n \div 10) \o <<48 + (n % 10)>>
Itoa(n) == IF n < 0 THEN <<45>> \o Digits(0 - n) ELSE Digits(n)

\* A check that lets every non-empty word through.
IsValidChoiceLoose(choice) == choice # <<>>

\* promptChoice's test of the lower-cased, trimmed input.
IsValidChoice(choice) ==
    ~(choice # S_rock /\ choice # S_paper /\ choice # S_scissors)

\* What the user may type on one line (the newline left out).
StdinLines == {S_rock, <<32, 82, 79, 67, 75, 9>>, S_lizard, <<32>>, <<97>>}

OppNick == <<98>>

\* A run enters Start at its beginning, or at its call of promptNickname
\* (READY received), or at its call of gameLoop (START received, the match
\* about to begin).  With ReceiveMessage as it is written Start never gets
\* past its first receive, so the two loops are entered directly as well.
ClientInit ==
    /\ entry \in {"Start", "promptNickname", "promptChoice"}
    /\ pc = entry
    /\ stdin \in SeqsUpTo(StdinLines, MaxInputs)
    /\ nickname = (IF entry = "promptChoice" THEN <<97>> ELSE <<>>)
    /\ toServer = <<>>
    /\ fromServer = <<>>
    /\ connClosed = FALSE
    /\ sent = <<>>
    /\ typed = <<>>
    /\ reports = <<>>
    /\ scoreSeen = FALSE
    /\ startSeen = FALSE
    /\ inGame = (entry = "promptChoice")
    /\ lastRecv = <<>>
    /\ failure = "none"
    /\ pPhase = (IF entry = "Start" THEN "greet"
                 ELSE IF entry = "promptNickname" THEN "negotiate"
                 ELSE "match")

\* Start returns the error `why`.
Fail(why) ==
    /\ pc' = "failed"
    /\ failure' = why

\* net.Dial.
Dial ==
    /\ pc = "Start"
    /\ \E ok \in BOOLEAN :
          IF ok THEN pc' = "recvInitial" /\ UNCHANGED failure
          ELSE Fail("dial")
    /\ UNCHANGED <<entry, stdin, nickname, toServer, fromServer, connClosed,
                   sent, typed, reports, scoreSeen, startSeen, inGame,
                   lastRecv, pPhase>>
    /\ ClientOnly

\* The number of ReceiveMessage calls the client has made after the one for
\* the initial message.
ReceivesDone == IF lastRecv = <<>> THEN 0 ELSE lastRecv[1].n

\* The client's ReceiveMessage call at position `at`, which leads to `next`.
Received(at, o, next) ==
    /\ fromServer' = o.rest
    /\ lastRecv' = <<[at |-> at, line |-> o.line, res |-> o.res, next |-> next,
                      n |-> ReceivesDone
                              + (IF at = "recvInitial" THEN 0 ELSE 1)]>>

\* What ReceiveMessage may return by its signature alone, whatever is on the
\* connection: a message without error, or an error.
StubMsgs ==
    {S_READY, S_RETRY, S_START,
     S_SCORE \o <<32, 48, 32, 48>>,                                 \* "SCORE 0 0"
     S_paper \o <<32>> \o S_lose \o <<32, 49, 32>> \o OppNick,        \* "paper lose 1 b"
     S_paper \o <<32>> \o S_lose \o <<32, 48, 32>> \o OppNick,        \* "paper lose 0 b"
     S_paper \o <<32>> \o S_lose}                                    \* "paper lose"
StubResults ==
    {[err |-> "nil", msg |-> m] : m \in StubMsgs}
        \cup {ReadFailed, [err |-> "header", msg |-> <<>>]}
StubReturns == {[res |-> r, line |-> <<>>, rest |-> <<>>] : r \in StubResults}

\* Start that goes on to the nickname whatever the initial message is.
InitialNextAnyMessage(res) ==
    IF res.err # "nil" THEN "failed" ELSE "promptNickname"

\* Start, after its first ReceiveMessage.
InitialNext(res) ==
    IF res.err # "nil" THEN "failed"
    ELSE IF res.msg # S_READY THEN "failed"
    ELSE "promptNickname"

\* promptNickname that on RETRY waits for another reply.
NickRespNextWaitsAgain(res) ==
    IF res.err # "nil" THEN "failed"
    ELSE IF res.msg = S_RETRY THEN "recvNickResp"
    ELSE IF res.msg = S_START THEN "promptChoice"
    ELSE "promptNickname"

\* promptNickname, after its ReceiveMessage.
NickRespNext(res) ==
    IF res.err # "nil" THEN "failed"
    ELSE IF res.msg = S_RETRY THEN "promptNickname"
    ELSE IF res.msg = S_START THEN "promptChoice"
    ELSE "promptNickname"

\* gameLoop that takes a malformed round reply for an error.
GameNextStrict(res) ==
    IF res.err # "nil" THEN "failed"
    ELSE IF HasPrefix(res.msg, S_SCORE) THEN "done"
    ELSE IF Len(Split(res.msg)) # 4 THEN "failed"
    ELSE IF Split(res.msg)[3] = <<48>> THEN "done"
    ELSE "promptChoice"

\* gameLoop, after its ReceiveMessage.
GameNext(res) ==
    IF res.err # "nil" THEN "failed"
    ELSE IF HasPrefix(res.msg, S_SCORE) THEN "done"
    ELSE IF Len(Split(res.msg)) # 4 THEN "promptChoice"
    ELSE IF Split(res.msg)[3] = <<48>> THEN "done"
    ELSE "promptChoice"

\* Start: the initial message must be READY.
RecvInitialFrom(returns) ==
    /\ pc = "recvInitial"
    /\ \E o \in returns :
          LET next == InitialNext(o.res)
          IN  /\ Received("recvInitial", o, next)
              /\ IF o.res.err # "nil" THEN Fail("receive")
                 ELSE IF next = "failed" THEN Fail("unexpected")
                 ELSE pc' = next /\ UNCHANGED failure
    /\ UNCHANGED <<entry, stdin, nickname, toServer, connClosed, sent, typed,
                   reports, scoreSeen, startSeen, inGame, pPhase>>
    /\ ClientOnly

\* promptNickname: one line from the user; an empty nickname is asked for
\* again, any other is sent.
PromptNickname ==
    /\ pc = "promptNickname"
    /\ IF stdin = <<>>
       THEN /\ Fail("stdin")
            /\ UNCHANGED <<stdin, nickname, toServer, sent>>
       ELSE LET name == TrimSpace(Head(stdin) \o <<NewLine>>)
            IN  /\ stdin' = Tail(stdin)
                /\ nickname' = name
                /\ IF name = <<>>
                   THEN UNCHANGED <<pc, failure, toServer, sent>>
                   ELSE IF connClosed
                   THEN Fail("send") /\ UNCHANGED <<toServer, sent>>
                   ELSE /\ toServer' = toServer \o Frame(name)
                        /\ sent' = Append(sent, [kind |-> "nickname", msg |-> name])
                        /\ pc' = "recvNickResp"
                        /\ UNCHANGED failure
    /\ UNCHANGED <<entry, fromServer, connClosed, typed, reports, scoreSeen,
                   startSeen, inGame, lastRecv, pPhase>>
    /\ ClientOnly

\* promptNickname: RETRY asks again, START ends the negotiation, anything
\* else asks again; on START Start goes on to gameLoop.
RecvNickRespFrom(returns) ==
    /\ pc = "recvNickResp"
    /\ \E o \in returns :
          LET next == NickRespNext(o.res)
          IN  /\ Received("recvNickResp", o, next)
              /\ IF next = "failed" THEN Fail("receive")
                 ELSE pc' = next /\ UNCHANGED failure
              /\ startSeen' = (next = "promptChoice")
              /\ inGame' = (inGame \/ next = "promptChoice")
    /\ UNCHANGED <<entry, stdin, nickname, toServer, connClosed, sent, typed,
                   reports, scoreSeen, pPhase>>
    /\ ClientOnly

\* gameLoop: promptChoice reads one line; an invalid choice is asked for
\* again, a valid one is returned and sent.
PromptChoice ==
    /\ pc = "promptChoice"
    /\ IF stdin = <<>>
       THEN /\ Fail("stdin")
            /\ UNCHANGED <<stdin, typed, toServer, sent>>
       ELSE LET choice == TrimSpace(ToLower(Head(stdin) \o <<NewLine>>))
            IN  /\ stdin' = Tail(stdin)
                /\ typed' = Append(typed, Head(stdin))
                /\ IF ~IsValidChoice(choice)
                   THEN UNCHANGED <<pc, failure, toServer, sent>>
                   ELSE IF connClosed
                   THEN Fail("send") /\ UNCHANGED <<toServer, sent>>
                   ELSE /\ toServer' = toServer \o Frame(choice)
                        /\ sent' = Append(sent, [kind |-> "choice", msg |-> choice])
                        /\ pc' = "recvGame"
                        /\ UNCHANGED failure
    /\ UNCHANGED <<entry, nickname, fromServer, connClosed, reports, scoreSeen,
                   startSeen, inGame, lastRecv, pPhase>>
    /\ ClientOnly

\* gameLoop: SCORE ends the loop; a reply that does not have four fields is
\* skipped; a round report with "0" rounds left ends the loop.
RecvGameFrom(returns) ==
    /\ pc = "recvGame"
    /\ \E o \in returns :
          LET parts == Split(o.res.msg)
              next == GameNext(o.res)
              isReport == /\ o.res.err = "nil"
                          /\ ~HasPrefix(o.res.msg, S_SCORE)
                          /\ Len(parts) = 4
          IN  /\ Received("recvGame", o, next)
              /\ IF next = "failed" THEN Fail("receive")
                 ELSE pc' = next /\ UNCHANGED failure
              /\ scoreSeen' = (scoreSeen \/ (o.res.err = "nil"
                                             /\ HasPrefix(o.res.msg, S_SCORE)))
              /\ reports' = IF isReport THEN Append(reports, parts) ELSE reports
    /\ UNCHANGED <<entry, stdin, nickname, toServer, connClosed, sent, typed,
                   startSeen, inGame, pPhase>>
    /\ ClientOnly

\* The three receives on the connection.
RecvInitial == RecvInitialFrom(ReceiveMessage(fromServer, connClosed))
RecvNickResp == RecvNickRespFrom(ReceiveMessage(fromServer, connClosed))
RecvGame == RecvGameFrom(ReceiveMessage(fromServer, connClosed))

\* The three receives with ReceiveMessage replaced by a stub that returns
\* any of StubReturns.
RecvInitialStub == RecvInitialFrom(StubReturns)
RecvNickRespStub == RecvNickRespFrom(StubReturns)
RecvGameStub == RecvGameFrom(StubReturns)

(***************************************************************************)
(* The server's end of the client's connection, as the design document     *)
(* describes it: READY on connect, RETRY or START for a nickname, a round  *)
(* report for a choice, SCORE after the last round.                        *)
(***************************************************************************)
\* The server reads one frame: the bytes up to the first newline.
ServerReads ==
    /\ NewlineAt(toServer) > 0
    /\ toServer' = SubSeq(toServer, NewlineAt(toServer) + 1, Len(toServer))

PeerGreets ==
    /\ pPhase = "greet"
    /\ pc # "Start"
    /\ ~connClosed
    /\ fromServer' = fromServer \o Frame(S_READY)
    /\ pPhase' = "negotiate"
    /\ UNCHANGED <<pc, entry, stdin, nickname, toServer, connClosed, sent,
                   typed, reports, scoreSeen, startSeen, inGame, lastRecv,
                   failure>>
    /\ UNCHANGED matchVars
    /\ PeerOnly

PeerAnswersNickname ==
    /\ pPhase = "negotiate"
    /\ ~connClosed
    /\ ServerReads
    /\ \E free \in BOOLEAN :
          /\ fromServer' = fromServer \o Frame(IF free THEN S_START ELSE S_RETRY)
          /\ pPhase' = (IF free THEN "match" ELSE "negotiate")
    /\ UNCHANGED <<pc, entry, stdin, nickname, connClosed, sent, typed,
                   reports, scoreSeen, startSeen, inGame, lastRecv, failure>>
    /\ UNCHANGED matchVars
    /\ PeerOnly

\* The round report for the client, who is Player1.
RoundReport(opp, delta, left) ==
    opp \o <<32>> \o outcomeString(delta) \o <<32>> \o Itoa(left)
        \o <<32>> \o OppNick

FinalReport(s1, s2) == S_SCORE \o <<32>> \o Itoa(s1) \o <<32>> \o Itoa(s2)

\* The match runner has the client's choice and the opponent's: it scores the
\* round, reports it, and after the last round sends the final scores.
PeerPlaysRound ==
    /\ pPhase = "match"
    /\ ~connClosed
    /\ ServerReads
    /\ sent # <<>>
    /\ \E opp \in Choices :
          /\ ScoreRound(sent[Len(sent)].msg, opp)
          /\ fromServer' = fromServer
                \o Frame(RoundReport(opp, mOut'[1][1], mRoundsLeft'))
                \o (IF mRoundsLeft' = 0
                    THEN Frame(FinalReport(mScore1', mScore2')) ELSE <<>>)
          /\ pPhase' = (IF mRoundsLeft' = 0 THEN "over" ELSE "match")
    /\ UNCHANGED <<pc, entry, stdin, nickname, connClosed, sent, typed,
                   reports, scoreSeen, startSeen, inGame, lastRecv, failure>>
    /\ PeerOnly

\* Forfeit: the opponent's transport has closed while the match awaited the
\* choices.  The match runner scores nothing, tells the client that the match
\* has ended (a notice that may or may not get written), and releases the
\* session, closing the connection.
PeerForfeits ==
    /\ pPhase = "match"
    /\ ~connClosed
    /\ pc \notin {"done", "failed"}
    /\ \E notice \in BOOLEAN :
          fromServer' = fromServer \o (IF notice THEN Frame(S_ENDED) ELSE <<>>)
    /\ connClosed' = TRUE
    /\ pPhase' = "forfeit"
    /\ UNCHANGED <<pc, entry, stdin, nickname, toServer, sent, typed, reports,
                   scoreSeen, startSeen, inGame, lastRecv, failure>>
    /\ UNCHANGED matchVars
    /\ PeerOnly

\* The server's end closes the connection.
PeerDrops ==
    /\ ~connClosed
    /\ pc \notin {"Start", "done", "failed"}
    /\ connClosed' = TRUE
    /\ UNCHANGED <<pc, entry, stdin, nickname, toServer, fromServer, sent,
                   typed, reports, scoreSeen, startSeen, inGame, lastRecv,
                   failure, pPhase>>
    /\ UNCHANGED matchVars
    /\ PeerOnly

ClientNext ==
    \/ Dial
    \/ RecvInitial
    \/ PromptNickname
    \/ RecvNickResp
    \/ PromptChoice
    \/ RecvGame
    \/ PeerGreets
    \/ PeerAnswersNickname
    \/ PeerPlaysRound
    \/ PeerDrops

\* The game loop against a match runner whose other session may be lost.
ForfeitNext ==
    \/ PromptChoice
    \/ RecvGame
    \/ PeerPlaysRound
    \/ PeerForfeits
    \/ PeerDrops

\* The client alone, its ReceiveMessage calls stubbed, on a connection that
\* may drop.
HandlersNext ==
    \/ Dial
    \/ RecvInitialStub
    \/ PromptNickname
    \/ RecvNickRespStub
    \/ PromptChoice
    \/ RecvGameStub
    \/ PeerDrops

(***************************************************************************)
(* Claims on the client.                                                   *)
(***************************************************************************)
\* The choice promptChoice makes of a typed line.
Normalised(line) == TrimSpace(ToLower(line \o <<NewLine>>))

InChoices(c) == c \in Choices
IsChoiceMsg(m) == m.kind = "choice"

\* The choices the client has sent / the typed lines that are choices.
SentChoices ==
    LET cs == SelectSeq(sent, IsChoiceMsg)
    IN  [i \in 1..Len(cs) |-> cs[i].msg]
TypedChoices ==
    SelectSeq([i \in 1..Len(typed) |-> Normalised(typed[i])], InChoices)

\* C5: in a match of N rounds in which the connection holds and the user
\* keeps answering, the client has received, when its game loop ends, N round
\* reports counting N-1, ..., 0 rounds left and then the SCORE message.
C5_ReportsThenScore ==
    (/\ pc \in {"done", "failed"}
     /\ inGame
     /\ ~connClosed
     /\ failure \notin {"stdin", "send"})
        => /\ Len(reports) = mRounds
           /\ \A i \in 1..Len(reports) : reports[i][3] = Itoa(mRounds - i)
           /\ scoreSeen

\* C6: every choice the client sends is rock, paper or scissors, the sent
\* choices are the typed lines that lower-case and trim to one of the three,
\* in order, and a line that does not is followed by a new prompt.
C6_OnlyValidChoicesSent ==
    /\ \A i \in 1..Len(sent) : sent[i].kind = "choice" => sent[i].msg \in Choices
    /\ Len(SentChoices) <= Len(TypedChoices)
    /\ SentChoices = SubSeq(TypedChoices, 1, Len(SentChoices))
    /\ Len(SentChoices) < Len(TypedChoices) =>
          (Len(SentChoices) + 1 = Len(TypedChoices) /\ failure = "send")
    /\ (typed # <<>> /\ Normalised(typed[Len(typed)]) \notin Choices) =>
          (pc = "promptChoice" \/ (pc = "failed" /\ failure = "stdin"))

\* "lizard" was typed and not sent, then " ROCK<tab>" was typed and "rock" sent.
C6_Witness ==
    /\ typed = <<S_lizard, <<32, 82, 79, 67, 75, 9>>>>
    /\ sent # <<>>
    /\ sent[Len(sent)] = [kind |-> "choice", msg |-> S_rock]
    /\ SentChoices = <<S_rock>>

\* C7: no empty nickname is sent; a RETRY reply to a nickname leads back to
\* the nickname prompt; a choice is sent only after START has been received.
C7_NicknameNegotiation ==
    /\ \A i \in 1..Len(sent) : sent[i].kind = "nickname" => sent[i].msg # <<>>
    /\ (/\ lastRecv # <<>>
        /\ lastRecv[1].at = "recvNickResp"
        /\ lastRecv[1].line = <<Frame(S_RETRY)>>)
          => lastRecv[1].next = "promptNickname"
    /\ (entry # "promptChoice" /\ SentChoices # <<>>) => startSeen

\* The number of space-separated fields of a message.
NumFields(m) == Cardinality({i \in 1..Len(m) : m[i] = 32}) + 1

\* C12: in the game loop a reply decoded without error that does not start
\* with SCORE and does not have exactly four space-separated fields is
\* ignored, the client prompting again and the loop going on, whereas an
\* error from ReceiveMessage ends the loop with an error and no choice is
\* sent after it.
C12_LenientOnReplyStrictOnFraming ==
    (lastRecv # <<>> /\ lastRecv[1].at = "recvGame") =>
        LET res == lastRecv[1].res
        IN  /\ (/\ res.err = "nil"
                /\ ~HasPrefix(res.msg, S_SCORE)
                /\ NumFields(res.msg) # 4) =>
                  /\ lastRecv[1].next = "promptChoice"
                  /\ \/ pc \in {"promptChoice", "recvGame"}
                     \/ pc = "failed" /\ failure \in {"stdin", "send"}
            /\ res.err # "nil" =>
                  /\ pc = "failed"
                  /\ failure = "receive"
                  /\ Len(sent) = lastRecv[1].n

\* The reply "paper lose" was ignored and a further choice has been sent.
C12_Witness ==
    /\ lastRecv # <<>>
    /\ lastRecv[1].at = "recvGame"
    /\ lastRecv[1].res = [err |-> "nil", msg |-> S_paper \o <<32>> \o S_lose]
    /\ pc = "recvGame"
    /\ Len(sent) = lastRecv[1].n + 1
    /\ sent[Len(sent)].kind = "choice"

\* The input at the head of stdin is one the prompt at pc would send.
Sendable ==
    /\ stdin # <<>>
    /\ \/ pc = "promptNickname" /\ TrimSpace(Head(stdin) \o <<NewLine>>) # <<>>
       \/ pc = "promptChoice" /\ Normalised(Head(stdin)) \in Choices

\* C14: an error from ReceiveMessage at any of the three receives, or a send
\* on the dropped connection, makes Start return an error; an initial message
\* other than READY makes it return before any nickname is sent; and once
\* Start has returned an error the client sends, receives and dials no more.
C14_DroppedConnectionEndsClient ==
    /\ [](/\ (lastRecv # <<>> /\ lastRecv[1].res.err # "nil") =>
                (pc = "failed" /\ failure = "receive")
          /\ (/\ lastRecv # <<>>
              /\ lastRecv[1].at = "recvInitial"
              /\ lastRecv[1].res.err = "nil"
              /\ lastRecv[1].res.msg # S_READY) =>
                (pc = "failed" /\ sent = <<>>))
    /\ [][/\ (connClosed /\ Sendable) =>
                (pc' = "failed" /\ failure' = "send" /\ sent' = sent)
          /\ pc = "failed" =>
                UNCHANGED <<pc, failure, sent, toServer, lastRecv, fromServer>>]_vars

\* The connection dropped after a choice had been sent and answered, and the
\* send of the next choice failed.
C14_Witness ==
    /\ pc = "failed"
    /\ failure = "send"
    /\ connClosed
    /\ sent # <<>>
    /\ sent[Len(sent)].kind = "choice"
    /\ ReceivesDone = Len(sent)

\* C18: after the initial message the client alternates one send with one
\* receive: while it waits for a reply it has sent exactly one message more
\* than it has received replies, and everywhere else exactly as many.
C18_LockStep ==
    IF pc \in {"recvNickResp", "recvGame"}
    THEN Len(sent) = ReceivesDone + 1
    ELSE Len(sent) = ReceivesDone

\* A nickname was refused, a second accepted, and a choice sent and answered.
C18_Witness ==
    /\ Len(sent) = 3
    /\ sent[1].kind = "nickname"
    /\ sent[2].kind = "nickname"
    /\ sent[3].kind = "choice"
    /\ ReceivesDone = 3

\* C11: a forfeit scores nothing, and a client that has sent its choice and
\* waits in its receive when the match is forfeited leaves its game loop.
C11_ForfeitEndsLoop ==
    /\ [][pPhase' = "forfeit" =>
            (UNCHANGED matchVars /\ Len(sent') >= RoundsPlayed')]_vars
    /\ (pPhase = "forfeit" /\ pc = "recvGame") ~> (pc \in {"done", "failed"})

\* The match was forfeited with the client's choice sent and not scored, and
\* the client's receive has failed and ended its game loop.
C11_Witness ==
    /\ pPhase = "forfeit"
    /\ Len(sent) = RoundsPlayed + 1
    /\ lastRecv # <<>>
    /\ lastRecv[1].at = "recvGame"
    /\ pc = "failed"
    /\ failure = "receive"

(***************************************************************************)
(* Specifications.                                                         *)
(***************************************************************************)
CodecIdle ==
    /\ cIn = <<>> /\ cEnc = <<>> /\ cDec = <<>> /\ cWire = <<>>
    /\ cClosed = FALSE /\ cOrigin = "none" /\ cSent = <<>> /\ cLine = <<>>
    /\ cRes = <<>>

MatchIdle ==
    /\ mRounds = 1 /\ mRoundsLeft = 1 /\ mChoice1 = <<>> /\ mChoice2 = <<>>
    /\ mScore1 = 0 /\ mScore2 = 0 /\ mOut = <<>>

MainIdle ==
    /\ osArgs = <<>> /\ mainPc = "start" /\ exitCode = -1 /\ mainOut = "none"
    /\ srvBuilt = FALSE /\ srvRounds = 0 /\ srvPort = <<>>

ServerIdle == ServerInit

ClientIdle ==
    /\ pc = "idle" /\ entry = "idle" /\ stdin = <<>> /\ nickname = <<>>
    /\ toServer = <<>> /\ fromServer = <<>> /\ connClosed = FALSE
    /\ sent = <<>> /\ typed = <<>> /\ reports = <<>> /\ scoreSeen = FALSE
    /\ startSeen = FALSE /\ inGame = FALSE /\ lastRecv = <<>>
    /\ failure = "none" /\ pPhase = "idle"

InitCodec == CodecInit /\ MatchIdle /\ MainIdle /\ ServerIdle /\ ClientIdle
SpecCodec == InitCodec /\ [][CodecNext]_vars

InitStream == StreamInit /\ MatchIdle /\ MainIdle /\ ServerIdle /\ ClientIdle
SpecStream == InitStream /\ [][StreamNext]_vars

InitMatch == MatchInit /\ CodecIdle /\ MainIdle /\ ServerIdle /\ ClientIdle
SpecMatch == InitMatch /\ [][MatchNext]_vars

InitMain == MainInit /\ CodecIdle /\ MatchIdle /\ ServerIdle /\ ClientIdle
SpecMain == InitMain /\ [][MainNext]_vars

InitServer == ServerInit /\ CodecIdle /\ MatchIdle /\ MainIdle /\ ClientIdle
SpecServer == InitServer /\ [][ServerNext]_vars

\* The receive of the game loop returns once a line has arrived or the
\* connection is closed: the blocked read is woken by either.
InitForfeit ==
    /\ ClientInit /\ entry = "promptChoice"
    /\ stdin \in SeqsUpTo({S_rock, S_lizard}, MaxInputs)
    /\ MatchInit /\ CodecIdle /\ MainIdle /\ ServerIdle
SpecForfeit == InitForfeit /\ [][ForfeitNext]_vars /\ WF_vars(RecvGame)

InitHandlers == ClientInit /\ CodecIdle /\ MatchIdle /\ MainIdle /\ ServerIdle
SpecHandlers == InitHandlers /\ [][HandlersNext]_vars

\* The client against the server's end of its connection, in a match of
\* mRounds rounds.
Init == ClientInit /\ MatchInit /\ CodecIdle /\ MainIdle /\ ServerIdle

Next == ClientNext

Spec == Init /\ [][Next]_vars

=============================================================================
